---- MODULE Spec2Model ----
(***************************************************************************)
(* Model of base/views.py: the check_owner decorator (lines 17-31) and the *)
(* two endpoints it guards, edit_post (173-187) and delete_post (190-195), *)
(* each behind login_required.  One request is handled at a time; pc is    *)
(* the position of the current request inside the decorator stack.         *)
(***************************************************************************)
EXTENDS Integers, Sequences, FiniteSets, TLC

\* ---------------------------------------------------------------- bounds
NumArticles == 2
MaxRequests == 2

\* ---------------------------------------------------------------- values
\* request.user: a stored User, or AnonymousUser (pk None, modelled as 0,
\* which no stored pk equals).
User(pk, su) == [pk |-> pk, is_superuser |-> su, is_authenticated |-> TRUE]
Users == {User(1, FALSE), User(2, FALSE), User(3, TRUE)}
AnonymousUser == [pk |-> 0, is_superuser |-> FALSE, is_authenticated |-> FALSE]
UserPks == {u.pk : u \in Users}
\* the users that have written articles
Authors == {u.pk : u \in {w \in Users : ~w.is_superuser}}

ArticlePks == 1..NumArticles
LookupValues == 1..(NumArticles + 1)

\* an Article row as the views see it: pk, author_id and the editable title
Article(pk, author, title) == [pk |-> pk, author_id |-> author, title |-> title]
NoObj == Article(0, 0, "none")

\* responses: what a handler returns, or the exception it lets escape
redirect(to) == [kind |-> "redirect", target |-> to]
render(template) == [kind |-> "render", target |-> template]
raise(exc) == [kind |-> "raise", target |-> exc]
NoResponse == [kind |-> "none", target |-> ""]

\* request.META without an HTTP_REFERER entry
NoReferer == "<absent>"
Referers == {NoReferer, "/users/"}

\* **kwargs is an ordered dict: a sequence of <<name, value>> pairs
HasKey(kwargs, key) == \E i \in 1..Len(kwargs) : kwargs[i][1] = key
GetKey(kwargs, key) ==
    kwargs[CHOOSE i \in 1..Len(kwargs) : kwargs[i][1] = key][2]
IsNot(key, pair) == pair[1] # key

\* variant: kwargs[key] read without removing it
pop_keep(kwargs, key) == kwargs
pop(kwargs, key) == SelectSeq(kwargs, LAMBDA pair : IsNot(key, pair))

\* the ways the guarded handler is called: routed (pk as keyword), routed
\* with further positional and keyword arguments, pk given positionally,
\* pk omitted
CallShapes ==
    {[args |-> <<>>, kwargs |-> << <<"pk", v>> >>] : v \in LookupValues}
    \cup {[args |-> <<7, 8>>,
           kwargs |-> << <<"page", 2>>, <<"pk", 1>>, <<"sort", 3>> >>]}
    \cup {[args |-> <<1>>, kwargs |-> <<>>]}
    \cup {[args |-> <<>>, kwargs |-> <<>>]}

Submissions ==
    {[endpoint |-> "delete_post", method |-> "GET", form_valid |-> FALSE],
     [endpoint |-> "edit_post", method |-> "GET", form_valid |-> FALSE],
     [endpoint |-> "edit_post", method |-> "POST", form_valid |-> TRUE],
     [endpoint |-> "edit_post", method |-> "POST", form_valid |-> FALSE]}

Requests ==
    {[user |-> u, endpoint |-> s.endpoint, method |-> s.method,
      form_valid |-> s.form_valid, args |-> c.args, kwargs |-> c.kwargs,
      referer |-> ref] :
        u \in Users \cup {AnonymousUser}, s \in Submissions,
        c \in CallShapes, ref \in Referers}

NoRequest ==
    [user |-> AnonymousUser, endpoint |-> "none", method |-> "GET",
     form_valid |-> FALSE, args |-> <<>>, kwargs |-> <<>>,
     referer |-> NoReferer]

Message(level, text) == [level |-> level, text |-> text]

\* ----------------------------------------------------------------- state
VARIABLES
    articles,   \* Article table: pk -> row
    messages,   \* flash messages per user pk
    pc,         \* "idle" | "check_owner" | "view" | "done"
    req,        \* the request being handled (or last handled)
    decision,   \* guard state of this request
    obj,        \* the resource the guard resolved
    calls,      \* invocations of the wrapped view during this request
    funcRet,    \* what the wrapped view returned or raised
    response,   \* what the decorated handler returned or raised
    reads,      \* resolution reads issued by the guard during this request
    pre,        \* articles and messages when the request arrived
    lastCheck,  \* inputs and decision of the most recent guard run
    justified,  \* pks a delete_post request by an author/superuser targeted
    nreq        \* requests received so far

vars == <<articles, messages, pc, req, decision, obj, calls, funcRet,
          response, reads, pre, lastCheck, justified, nreq>>

NoCheck == [user |-> AnonymousUser, value |-> 0, found |-> FALSE,
            author_id |-> 0, decision |-> "Unchecked", repeat |-> FALSE]

Init ==
    /\ \E author \in [ArticlePks -> Authors] :
          articles = [pk \in ArticlePks |-> Article(pk, author[pk], "old")]
    /\ messages = [u \in UserPks |-> <<>>]
    /\ pc = "idle"
    /\ req = NoRequest
    /\ decision = "Unchecked"
    /\ obj = NoObj
    /\ calls = <<>>
    /\ funcRet = NoResponse
    /\ response = NoResponse
    /\ reads = 0
    /\ pre = [articles |-> articles, messages |-> messages]
    /\ lastCheck = NoCheck
    /\ justified = {}
    /\ nreq = 0

\* ------------------------------------------------------------- helpers
\* messages.<level>(request, text)
add_message(msgs, user, level, text) ==
    [msgs EXCEPT ![user.pk] = Append(@, Message(level, text))]


\* variant: a miss yields an empty row instead of Http404
get_object_or_none(store, value) ==
    [found |-> TRUE,
     obj |-> IF value \in DOMAIN store THEN store[value] ELSE NoObj]
\* get_object_or_404(model, pk=value): the row, or Http404
get_object_or_404(store, value) ==
    IF value \in DOMAIN store
    THEN [found |-> TRUE, obj |-> store[value]]
    ELSE [found |-> FALSE, obj |-> NoObj]


\* variants of the test of line 24
authorized_any(user, o) == TRUE
authorized_owner_only(user, o) == o.author_id = user.pk
authorized_by_pk(user, o) == user.is_superuser \/ o.pk = user.pk
authorized_unnotified(user, o) ==
    (user.is_superuser \/ o.author_id = user.pk) /\ messages[user.pk] = <<>>
\* line 24, negated: the caller may pass
authorized(user, o) ==
    user.is_superuser \/ o.author_id = user.pk


\* variant: the referer is ignored
deny_location_home(request) == "home"
\* request.META.get('HTTP_REFERER', 'home')
deny_location(request) ==
    IF request.referer # NoReferer THEN request.referer ELSE "home"


\* variant: the warning is recorded twice
deny_notify_twice(msgs, user) ==
    add_message(add_message(msgs, user, "warning", "You aren't allowed here!"),
                user, "warning", "You aren't allowed here!")
\* line 25
deny_notify(msgs, user) ==
    add_message(msgs, user, "warning", "You aren't allowed here!")

\* line 27: func(request, obj, *args, **kwargs)
invocation(func, o, args, kwargs) ==
    [func |-> func, obj |-> o, args |-> args, kwargs |-> kwargs]

\* line 27: the wrapper returns what func returned
wrapper_return(ret) == ret

\* Python binds the call to def f(request, post): anything further is a
\* TypeError raised before the body runs
binds(call) == call.args = <<>> /\ call.kwargs = <<>>


\* variant: every row of the post's author goes
delete_by_author(store, post) ==
    [pk \in {k \in DOMAIN store : store[k].author_id # post.author_id}
        |-> store[pk]]
\* post.delete()
delete(store, post) ==
    [pk \in DOMAIN store \ {post.pk} |-> store[pk]]

\* ArticleForm(..., instance=post).save(): the submitted fields are written
\* to the row; the author is not a form field (add_post passes it to save)
save(store, post) ==
    IF post.pk \in DOMAIN store
    THEN [store EXCEPT ![post.pk].title = "new"]
    ELSE store

\* pks for which request r is a delete_post by an authenticated author or
\* superuser of a stored article
Justifies(r) ==
    IF r.endpoint = "delete_post" /\ r.user.is_authenticated
       /\ HasKey(r.kwargs, "pk")
    THEN {v \in {GetKey(r.kwargs, "pk")} :
            /\ v \in DOMAIN articles
            /\ (r.user.is_superuser \/ articles[v].author_id = r.user.pk)}
    ELSE {}

\* ------------------------------------------------------------- actions
\* @login_required(login_url='login'), the outermost decorator: request r
\* arrives at a guarded endpoint
login_required(r) ==
    /\ pc = "idle"
    /\ nreq < MaxRequests
    /\ req' = r
    /\ pre' = [articles |-> articles, messages |-> messages]
    /\ justified' = justified \cup Justifies(r)
    /\ nreq' = nreq + 1
    /\ IF r.user.is_authenticated
       THEN /\ pc' = "check_owner"
            /\ UNCHANGED response
       ELSE /\ pc' = "done"
            /\ response' = redirect("login")
    /\ UNCHANGED <<articles, messages, decision, obj, calls, funcRet,
                   reads, lastCheck>>

\* check_owner(Article, 'pk', 'author_id'): wrapper, lines 22-27
check_owner ==
    /\ pc = "check_owner"
    /\ IF ~HasKey(req.kwargs, "pk")
       THEN \* kwargs.pop(key) raises KeyError
            /\ decision' = "KeyError"
            /\ response' = raise("KeyError")
            /\ pc' = "done"
            /\ UNCHANGED <<obj, calls, messages, reads, lastCheck>>
       ELSE LET value == GetKey(req.kwargs, "pk")
                rest == pop(req.kwargs, "pk")
                res == get_object_or_404(articles, value)
            IN  /\ reads' = reads + 1
                /\ IF ~res.found
                   THEN /\ decision' = "NotFound"
                        /\ response' = raise("Http404")
                        /\ pc' = "done"
                        /\ UNCHANGED <<obj, calls, messages>>
                   ELSE IF ~authorized(req.user, res.obj)
                   THEN /\ decision' = "Forbidden"
                        /\ messages' = deny_notify(messages, req.user)
                        /\ response' = redirect(deny_location(req))
                        /\ obj' = res.obj
                        /\ pc' = "done"
                        /\ UNCHANGED calls
                   ELSE /\ decision' = "Allowed"
                        /\ obj' = res.obj
                        /\ calls' = Append(calls,
                              invocation(req.endpoint, res.obj, req.args, rest))
                        /\ pc' = "view"
                        /\ UNCHANGED <<messages, response>>
                /\ lastCheck' =
                     [user |-> req.user, value |-> value,
                      found |-> res.found, author_id |-> res.obj.author_id,
                      decision |-> decision',
                      repeat |-> /\ lastCheck.decision # "Unchecked"
                                 /\ lastCheck.user = req.user
                                 /\ lastCheck.value = value
                                 /\ lastCheck.found = res.found
                                 /\ lastCheck.author_id = res.obj.author_id]
    /\ UNCHANGED <<articles, req, funcRet, pre, justified, nreq>>

\* the call of line 27 does not bind to the view's signature
bad_call ==
    /\ pc = "view"
    /\ ~binds(calls[Len(calls)])
    /\ funcRet' = raise("TypeError")
    /\ response' = wrapper_return(funcRet')
    /\ pc' = "done"
    /\ UNCHANGED <<articles, messages, req, decision, obj, calls, reads,
                   pre, lastCheck, justified, nreq>>

\* delete_post(request, post), lines 192-195
delete_post ==
    /\ pc = "view"
    /\ binds(calls[Len(calls)])
    /\ calls[Len(calls)].func = "delete_post"
    /\ LET post == calls[Len(calls)].obj
       IN  /\ messages' = add_message(messages, req.user, "success",
                                      "Post has been deleted!")
           /\ articles' = delete(articles, post)
           /\ funcRet' = redirect("home")
    /\ response' = wrapper_return(funcRet')
    /\ pc' = "done"
    /\ UNCHANGED <<req, decision, obj, calls, reads, pre, lastCheck,
                   justified, nreq>>

\* edit_post(request, post), lines 175-187
edit_post ==
    /\ pc = "view"
    /\ binds(calls[Len(calls)])
    /\ calls[Len(calls)].func = "edit_post"
    /\ LET post == calls[Len(calls)].obj
       IN  IF req.method = "POST"
           THEN IF req.form_valid
                THEN /\ messages' = add_message(messages, req.user, "success",
                                                "Changes have been saved!")
                     /\ articles' = save(articles, post)
                     /\ funcRet' = redirect("home")
                ELSE /\ messages' = add_message(messages, req.user, "error",
                                                "Something went wrong!")
                     /\ funcRet' = render("base/form.html")
                     /\ UNCHANGED articles
           ELSE /\ funcRet' = render("base/form.html")
                /\ UNCHANGED <<articles, messages>>
    /\ response' = wrapper_return(funcRet')
    /\ pc' = "done"
    /\ UNCHANGED <<req, decision, obj, calls, reads, pre, lastCheck,
                   justified, nreq>>

\* the handler has returned (or raised): the response leaves and the
\* request's locals are gone
respond ==
    /\ pc = "done"
    /\ pc' = "idle"
    /\ req' = NoRequest
    /\ decision' = "Unchecked"
    /\ obj' = NoObj
    /\ calls' = <<>>
    /\ funcRet' = NoResponse
    /\ response' = NoResponse
    /\ reads' = 0
    /\ pre' = [articles |-> articles, messages |-> messages]
    /\ UNCHANGED <<articles, messages, lastCheck, justified, nreq>>

Next ==
    \/ \E r \in Requests : login_required(r)
    \/ respond
    \/ check_owner
    \/ bad_call
    \/ delete_post
    \/ edit_post

Spec == Init /\ [][Next]_vars

\* ------------------------------------------------------------ properties
HasValue == HasKey(req.kwargs, "pk")
Value == GetKey(req.kwargs, "pk")
Resolvable == HasValue /\ Value \in DOMAIN pre.articles
Checked == decision # "Unchecked"
Finished == pc = "done"
Warning == Message("warning", "You aren't allowed here!")
Trailing(kwargs) == SelectSeq(kwargs, LAMBDA pair : pair[1] # "pk")

\* C1: the wrapped view has been invoked only for a principal that was a
\* superuser or the owner of the resolved resource when the check ran; a
\* denied request has an invocation count of zero.
C1_InvokedOnlyIfOwnerOrSuperuser ==
    /\ Len(calls) > 0 =>
          /\ Resolvable
          /\ calls[1].obj = pre.articles[Value]
          /\ \/ req.user.is_superuser
             \/ pre.articles[Value].author_id = req.user.pk
    /\ decision \in {"Forbidden", "NotFound"} => Len(calls) = 0

C1_Witness ==
    /\ Finished /\ Len(calls) = 1
    /\ ~req.user.is_superuser
    /\ calls[1].obj.author_id = req.user.pk

\* C2: a superuser is allowed on every resolvable resource, whoever owns it.
C2_SuperuserAllowed ==
    (Checked /\ Resolvable /\ req.user.is_superuser) =>
        /\ decision = "Allowed"
        /\ Len(calls) = 1

C2_Witness ==
    /\ decision = "Allowed" /\ req.user.is_superuser
    /\ obj.author_id # req.user.pk
    /\ Len(calls) = 1

\* C3: a non-superuser is allowed on a resolvable resource iff the
\* resource's author_id equals the principal's pk, and is denied otherwise.
C3_NonSuperuserAllowedIffOwner ==
    (Checked /\ Resolvable /\ ~req.user.is_superuser) =>
        /\ decision \in {"Allowed", "Forbidden"}
        /\ decision = "Allowed" <=>
              pre.articles[Value].author_id = req.user.pk

C3_Witness ==
    /\ Finished /\ decision = "Forbidden"
    /\ ~req.user.is_superuser
    /\ obj.author_id # req.user.pk
    /\ obj.pk = req.user.pk

\* C4: a lookup value matching no resource ends in Http404 for every
\* principal, with no invocation of the view and no Forbidden outcome.
C4_MissingIsNotFound ==
    (Checked /\ HasValue /\ Value \notin DOMAIN pre.articles) =>
        /\ decision = "NotFound"
        /\ response = raise("Http404")
        /\ calls = <<>>
        /\ messages = pre.messages

C4_Witness ==
    /\ Finished /\ decision = "NotFound"
    /\ req.user.is_superuser
    /\ response = raise("Http404")

\* C5: a failed authorization records exactly the warning "You aren't
\* allowed here!" for the caller and returns a redirect to the referer, or
\* to 'home' without one; nothing is raised and the view is not invoked.
C5_ForbiddenIsWarningAndRedirect ==
    decision = "Forbidden" =>
        /\ messages = [pre.messages EXCEPT
                          ![req.user.pk] = Append(@, Warning)]
        /\ response = redirect(IF req.referer = NoReferer
                               THEN "home" ELSE req.referer)
        /\ calls = <<>>
        /\ pc = "done"

C5_Witness ==
    /\ decision = "Forbidden"
    /\ req.referer = "/users/"
    /\ response = redirect("/users/")
    /\ messages[req.user.pk] = <<Warning>>

\* C6: on the allow path the view is invoked exactly once with the resolved
\* resource, then the original positional arguments and the keyword
\* arguments other than pk, in order; the handler returns the view's result.
C6_AllowInvokesOnceWithArguments ==
    decision = "Allowed" =>
        /\ Len(calls) = 1
        /\ calls[1] = [func |-> req.endpoint, obj |-> pre.articles[Value],
                       args |-> req.args, kwargs |-> Trailing(req.kwargs)]
        /\ pc = "done" => (response = funcRet /\ funcRet # NoResponse)

C6_Witness ==
    /\ Finished /\ decision = "Allowed"
    /\ calls[1].args = <<7, 8>>
    /\ calls[1].kwargs = << <<"page", 2>>, <<"sort", 3>> >>
    /\ response = funcRet

\* C7: every finished run of the guard ends in the NotFound response, the
\* Forbidden redirect or the wrapped view's own result.
C7_EveryOutcomeIsAResponse ==
    (Finished /\ req.user.is_authenticated) =>
        \/ decision = "NotFound" /\ response = raise("Http404")
        \/ decision = "Forbidden" /\ response.kind = "redirect"
        \/ decision = "Allowed" /\ response = funcRet

\* C8: a run of the guard issues at most one resolution read, leaves the
\* article table unchanged, and changes the notification lists only by one
\* warning for the caller on the deny path.
C8_GuardWritesNothingButTheWarning ==
    [][pc = "check_owner" =>
          /\ articles' = articles
          /\ reads' <= 1
          /\ decision' = "Forbidden" =>
                messages' = [messages EXCEPT
                                ![req.user.pk] = Append(@, Warning)]
          /\ decision' # "Forbidden" => messages' = messages]_vars

C8_Witness ==
    /\ pc = "view" /\ decision = "Allowed"
    /\ reads = 1
    /\ messages = pre.messages /\ articles = pre.articles

\* C9: a guard run with the same principal and lookup value as the previous
\* one, the resource's existence and author_id being what they were then,
\* reaches the same decision, whatever was notified in between.
C9_RepeatedCheckSameDecision ==
    [][(/\ pc = "check_owner"
        /\ lastCheck.decision # "Unchecked"
        /\ HasValue
        /\ lastCheck.user = req.user
        /\ lastCheck.value = Value
        /\ lastCheck.found = (Value \in DOMAIN articles)
        /\ lastCheck.found => lastCheck.author_id = articles[Value].author_id)
       => decision' = lastCheck.decision]_vars

C9_Witness ==
    /\ Finished /\ lastCheck.repeat
    /\ decision = "Forbidden"
    /\ Len(messages[req.user.pk]) = 2

\* C10: an article is gone only if a delete_post request for its pk came
\* from its author or a superuser; a request ending in Forbidden, NotFound
\* or the login redirect leaves the stored articles as they were; deleting
\* an already deleted article ends in NotFound.
C10_DeleteOnlyByOwnerOrSuperuser ==
    /\ \A pk \in ArticlePks : pk \notin DOMAIN articles => pk \in justified
    /\ (Finished /\ \/ decision \in {"Forbidden", "NotFound"}
                    \/ response = redirect("login"))
          => articles = pre.articles
    /\ (/\ Finished /\ req.endpoint = "delete_post"
        /\ req.user.is_authenticated /\ HasValue
        /\ Value \in ArticlePks /\ Value \notin DOMAIN pre.articles)
          => response = raise("Http404")

C10_Witness ==
    /\ Finished /\ req.endpoint = "delete_post"
    /\ HasValue /\ Value \in ArticlePks
    /\ Value \notin DOMAIN pre.articles
    /\ response = raise("Http404")
====
